---- MODULE Spec2Model ----
(***************************************************************************)
(* The store API of src/app.js: users, products and orders kept in a       *)
(* relational store behind Prisma, with the POST /orders handler that      *)
(* reads the stock, checks it and then submits one transaction holding     *)
(* the order creation and one stock decrement per requested line.          *)
(*                                                                         *)
(* Every handler is one action, except POST /orders, which is two: the     *)
(* handler awaits the findMany read (PostOrdersRead) and later the         *)
(* $transaction (PostOrdersTransaction); other requests may run between.   *)
(***************************************************************************)
EXTENDS Integers, Sequences, FiniteSets, TLC

\* ---------------------------------------------------------------- bounds
\* The narrow scope, under which the claims that hold are checked.
MaxUsers == 1
MaxProducts == 1
MaxOrders == 1
MaxStock == 1
MaxQuantity == 1
MaxItems == 1
MaxClients == 1
MaxPrice == 2

\* The wide scope, which has room for two concurrent placements and for
\* two lines with different quantities.
WideProducts == 2
WideOrders == 2
WideStock == 2
WideQuantity == 2
WideItems == 2
WideClients == 2

\* A scope bounds what the requests of a specification may ask for.
NarrowSizes ==
    [users |-> MaxUsers, products |-> MaxProducts, orders |-> MaxOrders,
     stock |-> MaxStock, quantity |-> MaxQuantity, items |-> MaxItems,
     clients |-> MaxClients]

WideSizes ==
    [users |-> MaxUsers, products |-> WideProducts, orders |-> WideOrders,
     stock |-> WideStock, quantity |-> WideQuantity, items |-> WideItems,
     clients |-> WideClients]

Clients == 1..(IF MaxClients > WideClients THEN MaxClients ELSE WideClients)
Prices == 1..MaxPrice
Statuses == {"PENDING", "COMPLETE"}

VARIABLES
    users,        \* the ids of the User rows
    userSeq,      \* how many user ids were handed out
    products,     \* Product rows: id -> [stock, price]
    productSeq,   \* how many product ids were handed out
    orders,       \* Order rows: id -> [userId, status, orderItems]
    orderSeq,     \* how many order ids were handed out
    pc,           \* per client: "idle", or "tx" between the read and the transaction
    req,          \* per client: the body of its POST /orders request
    last,         \* the response sent last
    placed        \* history: order id -> the orderItems of the request that created it

store == <<users, userSeq, products, productSeq, orders, orderSeq>>
vars == <<users, userSeq, products, productSeq, orders, orderSeq, pc, req, last,
          placed>>

\* ------------------------------------------------------------- helpers
NoBody == [kind |-> "none"]
Empty == [x \in {} |-> 0]

Response(op, status, message, body) ==
    [op |-> op, status |-> status, message |-> message, body |-> body]

Restrict(f, S) == [x \in S |-> f[x]]
Extend(f, k, v) == [x \in DOMAIN f \cup {k} |-> IF x = k THEN v ELSE f[x]]

\* asyncHandler without its P2025 branch
ErrorStatusNoNotFound(code) ==
    IF code = "P2002" THEN 400
    ELSE IF code = "StructError" THEN 400
    ELSE 500

\* asyncHandler's catch: the status sent for a thrown error
ErrorStatus(code) ==
    IF code = "P2025" THEN 404
    ELSE IF code = "P2002" THEN 400
    ELSE IF code = "StructError" THEN 400
    ELSE 500

ErrorResponse(op, code) == Response(op, ErrorStatus(code), code, NoBody)

Init ==
    /\ users = {}
    /\ userSeq = 0
    /\ products = Empty
    /\ productSeq = 0
    /\ orders = Empty
    /\ orderSeq = 0
    /\ pc = [c \in Clients |-> "idle"]
    /\ req = [c \in Clients |-> NoBody]
    /\ last = Response("none", 0, "", NoBody)
    /\ placed = Empty

\* ---------------------------------------------------------------- users
PostUser(valid) ==
    /\ IF ~valid
       THEN /\ last' = ErrorResponse("POST /users", "StructError")
            /\ UNCHANGED <<users, userSeq>>
       ELSE /\ users' = users \cup {userSeq + 1}
            /\ userSeq' = userSeq + 1
            /\ last' = Response("POST /users", 201, "", NoBody)
    /\ UNCHANGED <<products, productSeq, orders, orderSeq, pc, req, placed>>

GetUser(id) ==
    /\ last' = IF id \in users
               THEN Response("GET /users/:id", 200, "", NoBody)
               ELSE ErrorResponse("GET /users/:id", "P2025")
    /\ UNCHANGED <<store, pc, req, placed>>

PatchUser(id, valid) ==
    /\ last' = IF ~valid THEN ErrorResponse("PATCH /users/:id", "StructError")
               ELSE IF id \notin users THEN ErrorResponse("PATCH /users/:id", "P2025")
               ELSE Response("PATCH /users/:id", 200, "", NoBody)
    /\ UNCHANGED <<store, pc, req, placed>>

\* an Order row refers to the user
UserReferenced(id) == \E o \in DOMAIN orders : orders[o].userId = id

DeleteUser(id) ==
    /\ IF id \notin users
       THEN /\ last' = ErrorResponse("DELETE /users/:id", "P2025")
            /\ UNCHANGED users
       ELSE IF UserReferenced(id)
       THEN /\ last' = ErrorResponse("DELETE /users/:id", "P2003")
            /\ UNCHANGED users
       ELSE /\ users' = users \ {id}
            /\ last' = Response("DELETE /users/:id", 200, "", NoBody)
    /\ UNCHANGED <<userSeq, products, productSeq, orders, orderSeq, pc,
                   req, placed>>

\* ------------------------------------------------------------- products
PostProduct(valid, stock, price) ==
    /\ IF ~valid
       THEN /\ last' = ErrorResponse("POST /products", "StructError")
            /\ UNCHANGED <<products, productSeq>>
       ELSE /\ products' = Extend(products, productSeq + 1,
                                  [stock |-> stock, price |-> price])
            /\ productSeq' = productSeq + 1
            /\ last' = Response("POST /products", 201, "", NoBody)
    /\ UNCHANGED <<users, userSeq, orders, orderSeq, pc, req,
                   placed>>

GetProduct(id) ==
    /\ last' = IF id \in DOMAIN products
               THEN Response("GET /products/:id", 200, "", NoBody)
               ELSE ErrorResponse("GET /products/:id", "P2025")
    /\ UNCHANGED <<store, pc, req, placed>>

\* the bodies PatchProduct accepts: any subset of the fields
ProductPatches(stocks, prices) ==
    [stock : stocks] \cup [price : prices] \cup [stock : stocks, price : prices]

ApplyPatch(row, data) ==
    [f \in DOMAIN row |-> IF f \in DOMAIN data THEN data[f] ELSE row[f]]

PatchProduct(id, valid, data) ==
    /\ IF ~valid
       THEN /\ last' = ErrorResponse("PATCH /products/:id", "StructError")
            /\ UNCHANGED products
       ELSE IF id \notin DOMAIN products
       THEN /\ last' = ErrorResponse("PATCH /products/:id", "P2025")
            /\ UNCHANGED products
       ELSE /\ products' = [products EXCEPT ![id] = ApplyPatch(@, data)]
            /\ last' = Response("PATCH /products/:id", 200, "", NoBody)
    /\ UNCHANGED <<users, userSeq, productSeq, orders, orderSeq, pc, req, placed>>

\* an OrderItem row refers to the product
ProductReferenced(id) ==
    \E o \in DOMAIN orders :
        \E i \in 1..Len(orders[o].orderItems) : orders[o].orderItems[i].productId = id

DeleteProduct(id) ==
    /\ IF id \notin DOMAIN products
       THEN /\ last' = ErrorResponse("DELETE /products/:id", "P2025")
            /\ UNCHANGED products
       ELSE IF ProductReferenced(id)
       THEN /\ last' = ErrorResponse("DELETE /products/:id", "P2003")
            /\ UNCHANGED products
       ELSE /\ products' = Restrict(products, DOMAIN products \ {id})
            /\ last' = Response("DELETE /products/:id", 204, "", NoBody)
    /\ UNCHANGED <<users, userSeq, productSeq, orders, orderSeq, pc, req, placed>>

\* --------------------------------------------------------------- orders
\* total = 0; orderItems.forEach(total += unitPrice * quantity)
RECURSIVE SumItems(_, _)
SumItems(orderItems, total) ==
    IF orderItems = <<>> THEN total
    ELSE SumItems(Tail(orderItems),
                  total + Head(orderItems).unitPrice * Head(orderItems).quantity)

\* the total taken from the product's price of now instead of the line's unitPrice
OrderTotalLivePrice(order) ==
    SumItems([i \in 1..Len(order.orderItems) |->
                 [unitPrice |-> products[order.orderItems[i].productId].price,
                  quantity |-> order.orderItems[i].quantity]], 0)

OrderTotal(order) == SumItems(order.orderItems, 0)

GetOrder(id) ==
    /\ last' = IF id \in DOMAIN orders
               THEN Response("GET /orders/:id", 200, "",
                             [kind |-> "order", id |-> id,
                              total |-> OrderTotal(orders[id])])
               ELSE ErrorResponse("GET /orders/:id", "P2025")
    /\ UNCHANGED <<store, pc, req, placed>>

PatchOrder(id, valid, status) ==
    /\ IF ~valid
       THEN /\ last' = ErrorResponse("PATCH /orders/:id", "StructError")
            /\ UNCHANGED orders
       ELSE IF id \notin DOMAIN orders
       THEN /\ last' = ErrorResponse("PATCH /orders/:id", "P2025")
            /\ UNCHANGED orders
       ELSE /\ orders' = [orders EXCEPT ![id].status = status]
            /\ last' = Response("PATCH /orders/:id", 200, "", NoBody)
    /\ UNCHANGED <<users, userSeq, products, productSeq, orderSeq, pc,
                   req, placed>>

DeleteOrder(id) ==
    /\ IF id \notin DOMAIN orders
       THEN /\ last' = ErrorResponse("DELETE /orders/:id", "P2025")
            /\ UNCHANGED orders
       ELSE /\ orders' = Restrict(orders, DOMAIN orders \ {id})
            /\ last' = Response("DELETE /orders/:id", 204, "", NoBody)
    /\ UNCHANGED <<users, userSeq, products, productSeq, orderSeq, pc,
                   req, placed>>

\* ---------------------------------------------------------- POST /orders
OrderItems(n, prices) ==
    [productId : 1..n.products, quantity : 0..n.quantity, unitPrice : prices]

RECURSIVE SeqsUpTo(_, _)
SeqsUpTo(S, n) ==
    IF n = 0 THEN {<<>>}
    ELSE LET shorter == SeqsUpTo(S, n - 1)
         IN  shorter \cup {Append(q, x) : q \in {t \in shorter : Len(t) = n - 1}, x \in S}

\* the request bodies of scope n: an owner and up to n.items lines
OrderBodies(n, prices) ==
    [userId : 1..n.users, orderItems : SeqsUpTo(OrderItems(n, prices), n.items)]

\* a scope with the request bodies it allows, at the given unit prices
WithBodies(n, prices) ==
    [users |-> n.users, products |-> n.products, orders |-> n.orders,
     stock |-> n.stock, quantity |-> n.quantity, items |-> n.items,
     clients |-> n.clients, bodies |-> OrderBodies(n, prices)]

\* The scopes of the specifications. Placement does not depend on who the
\* owner is, so its scopes have one user id; a unit price matters only where the
\* total is checked, and there one product carries the prices; the handlers of
\* the three resources are run with one-line orders of quantity 1.
PlacementScope == WithBodies([NarrowSizes EXCEPT !.users = 1], {1})
WideScope == WithBodies([WideSizes EXCEPT !.users = 1], {1})
CrudScope == WithBodies([NarrowSizes EXCEPT !.items = 1, !.quantity = 1], {1})
TotalsScope == WithBodies([NarrowSizes EXCEPT !.users = 1, !.products = 1], Prices)

\* Ids are UUIDs the store hands out: a request can name only an id that was
\* handed out (its row may be gone since), never one of a row yet to be created.
IssuedBodies(n) ==
    {body \in n.bodies :
        /\ body.userId <= userSeq
        /\ \A i \in 1..Len(body.orderItems) : body.orderItems[i].productId <= productSeq}

\* assert(req.body, CreateOrder): at least one line, every quantity at least 1
ValidCreateOrder(body) ==
    /\ Len(body.orderItems) >= 1
    /\ \A i \in 1..Len(body.orderItems) : body.orderItems[i].quantity >= 1

\* orderItems.map((orderItem) => orderItem.productId)
productIdsOf(orderItems) == [i \in 1..Len(orderItems) |-> orderItems[i].productId]

\* orderItems.find(...).quantity: the quantity of the FIRST line naming the product
getQuantity(orderItems, productId) ==
    LET first == CHOOSE i \in 1..Len(orderItems) :
                     /\ orderItems[i].productId = productId
                     /\ \A j \in 1..(i - 1) : orderItems[j].productId # productId
    IN  orderItems[first].quantity

\* prisma.product.findMany({ where: { id: { in: productIds } } })
findMany(rows, ids) == Restrict(rows, {ids[i] : i \in 1..Len(ids)} \cap DOMAIN rows)

\* the check with > for >=
isSufficientStockStrict(found, orderItems) ==
    \A id \in DOMAIN found : found[id].stock > getQuantity(orderItems, id)

\* products.every(({ id, stock }) => stock >= getQuantity(id))
isSufficientStock(found, orderItems) ==
    \A id \in DOMAIN found : found[id].stock >= getQuantity(orderItems, id)

\* productIds.map((id) => prisma.product.update({ ... decrement: getQuantity(id) }))
queriesOf(orderItems) ==
    [i \in 1..Len(orderItems) |->
        [op |-> "product.update", id |-> orderItems[i].productId,
         decrement |-> getQuantity(orderItems, orderItems[i].productId)]]

\* the array handed to prisma.$transaction
transactionOf(body) ==
    <<[op |-> "order.create", data |-> body]>> \o queriesOf(body.orderItems)

\* One statement of the transaction on the working copy db; code "" is success.
ApplyQuery(q, db, fk) ==
    IF q.op = "order.create"
    THEN IF q.data.userId \notin db.users
         THEN [code |-> "P2025", db |-> db]
         ELSE IF fk /\ \E i \in 1..Len(q.data.orderItems) :
                          q.data.orderItems[i].productId \notin DOMAIN db.products
         THEN [code |-> "P2003", db |-> db]
         ELSE [code |-> "",
               db |-> [db EXCEPT
                         !.orders = Extend(@, db.orderSeq + 1,
                                           [userId |-> q.data.userId,
                                            status |-> "PENDING",
                                            orderItems |-> q.data.orderItems]),
                         !.orderSeq = @ + 1]]
    ELSE IF q.id \notin DOMAIN db.products
         THEN [code |-> "P2025", db |-> db]
         ELSE [code |-> "",
               db |-> [db EXCEPT !.products[q.id].stock = @ - q.decrement]]

\* The statements in order on a working copy; the first failure ends the run.
RECURSIVE RunQueries(_, _, _)
RunQueries(queries, db, fk) ==
    IF queries = <<>> THEN [code |-> "", db |-> db]
    ELSE LET r == ApplyQuery(Head(queries), db, fk)
         IN  IF r.code # "" THEN r ELSE RunQueries(Tail(queries), r.db, fk)

\* the statements without a transaction around them: what ran before the
\* failure stays
TransactionNoRollback(queries, db, fk) == RunQueries(queries, db, fk)

\* the statements each on its own (as with Promise.all): a failing one is skipped,
\* the others apply, and the first failure is reported
RECURSIVE RunEach(_, _, _, _)
RunEach(queries, db, fk, code) ==
    IF queries = <<>> THEN [code |-> code, db |-> db]
    ELSE LET r == ApplyQuery(Head(queries), db, fk)
         IN  RunEach(Tail(queries), r.db, fk, IF code = "" THEN r.code ELSE code)

TransactionIndependent(queries, db, fk) == RunEach(queries, db, fk, "")

\* prisma.$transaction([...]): all statements commit, or the store is as before
Transaction(queries, db, fk) ==
    LET r == RunQueries(queries, db, fk)
    IN  IF r.code = "" THEN r ELSE [code |-> r.code, db |-> db]

InFlight == {c \in Clients : pc[c] = "tx"}

\* lines 278-299: validate, read the stock, check it; an accepted request goes on
\* to its transaction
PostOrdersRead(c, body) ==
    /\ pc[c] = "idle"
    /\ IF ~ValidCreateOrder(body)
       THEN /\ last' = ErrorResponse("POST /orders", "StructError")
            /\ UNCHANGED <<pc, req>>
       ELSE LET found == findMany(products, productIdsOf(body.orderItems))
            IN  IF ~isSufficientStock(found, body.orderItems)
                THEN /\ last' = Response("POST /orders", 500, "Insufficient Stock",
                                         NoBody)
                     /\ UNCHANGED <<pc, req>>
                ELSE /\ pc' = [pc EXCEPT ![c] = "tx"]
                     /\ req' = [req EXCEPT ![c] = body]
                     /\ UNCHANGED last
    /\ UNCHANGED <<store, placed>>

\* lines 301-325: the transaction and the response
PostOrdersTransaction(c, fk) ==
    /\ pc[c] = "tx"
    /\ LET db == [users |-> users, products |-> products, orders |-> orders,
                  orderSeq |-> orderSeq]
           r == Transaction(transactionOf(req[c]), db, fk)
       IN  /\ products' = r.db.products
           /\ orders' = r.db.orders
           /\ orderSeq' = r.db.orderSeq
           /\ IF r.code = ""
              THEN /\ last' = Response("POST /orders", 200, "",
                                       [kind |-> "order", id |-> r.db.orderSeq])
                   /\ placed' = Extend(placed, r.db.orderSeq, req[c].orderItems)
              ELSE /\ last' = ErrorResponse("POST /orders", r.code)
                   /\ UNCHANGED placed
    /\ pc' = [pc EXCEPT ![c] = "idle"]
    /\ req' = [req EXCEPT ![c] = NoBody]
    /\ UNCHANGED <<users, userSeq, productSeq>>

\* ------------------------------------------------------ specifications
\* a POST /orders may start while the scope has an order id left for it
OrderIdLeft(n) == orderSeq + Cardinality(InFlight) < n.orders

\* Order placement under concurrency: the clients' reads and transactions
\* interleave with each other and with the requests that create and delete
\* the rows they refer to.
PlacementNext(n) ==
    \/ userSeq < n.users /\ \E valid \in BOOLEAN : PostUser(valid)
    \/ \E id \in 1..n.users : DeleteUser(id)
    \/ productSeq < n.products
           /\ \E valid \in BOOLEAN, stock \in 0..n.stock : PostProduct(valid, stock, 1)
    \/ \E id \in 1..n.products : GetProduct(id)
    \/ \E id \in 1..n.products : DeleteProduct(id)
    \/ \E id \in 1..n.orders : GetOrder(id)
    \/ OrderIdLeft(n) /\ \E c \in 1..n.clients, body \in IssuedBodies(n) :
                             PostOrdersRead(c, body)
    \/ \E c \in 1..n.clients, fk \in BOOLEAN : PostOrdersTransaction(c, fk)

Spec == Init /\ [][PlacementNext(PlacementScope)]_vars

SpecWide == Init /\ [][PlacementNext(WideScope)]_vars

\* Order placement one request at a time: a request starts only when no
\* POST /orders is between its read and its transaction.
SequentialNext(n) ==
    \/ InFlight = {} /\ userSeq < n.users /\ \E valid \in BOOLEAN : PostUser(valid)
    \/ InFlight = {} /\ \E id \in 1..n.users : DeleteUser(id)
    \/ InFlight = {} /\ productSeq < n.products
                     /\ \E valid \in BOOLEAN, stock \in 0..n.stock :
                            PostProduct(valid, stock, 1)
    \/ InFlight = {} /\ \E id \in 1..n.products, valid \in BOOLEAN,
                           data \in [stock : 0..n.stock] :
                            PatchProduct(id, valid, data)
    \/ InFlight = {} /\ \E id \in 1..n.products : DeleteProduct(id)
    \/ InFlight = {} /\ \E id \in 1..n.orders : GetOrder(id)
    \/ InFlight = {} /\ OrderIdLeft(n)
                     /\ \E c \in 1..n.clients, body \in IssuedBodies(n) :
                            PostOrdersRead(c, body)
    \/ \E c \in 1..n.clients, fk \in BOOLEAN : PostOrdersTransaction(c, fk)

SpecSequential == Init /\ [][SequentialNext(PlacementScope)]_vars

SpecSequentialWide == Init /\ [][SequentialNext(WideScope)]_vars

\* Every handler of the three resources, one request at a time.
CrudNext(n) ==
    \/ InFlight = {} /\ userSeq < n.users /\ \E valid \in BOOLEAN : PostUser(valid)
    \/ InFlight = {} /\ \E id \in 1..n.users : GetUser(id)
    \/ InFlight = {} /\ \E id \in 1..n.users, valid \in BOOLEAN : PatchUser(id, valid)
    \/ InFlight = {} /\ \E id \in 1..n.users : DeleteUser(id)
    \/ InFlight = {} /\ productSeq < n.products
                     /\ \E valid \in BOOLEAN, stock \in 0..n.stock :
                            PostProduct(valid, stock, 1)
    \/ InFlight = {} /\ \E id \in 1..n.products : GetProduct(id)
    \/ InFlight = {} /\ \E id \in 1..n.products, valid \in BOOLEAN,
                           data \in [stock : 0..n.stock] :
                            PatchProduct(id, valid, data)
    \/ InFlight = {} /\ \E id \in 1..n.products : DeleteProduct(id)
    \/ InFlight = {} /\ \E id \in 1..n.orders : GetOrder(id)
    \/ InFlight = {} /\ \E id \in 1..n.orders, valid \in BOOLEAN, status \in Statuses :
                            PatchOrder(id, valid, status)
    \/ InFlight = {} /\ \E id \in 1..n.orders : DeleteOrder(id)
    \/ InFlight = {} /\ OrderIdLeft(n)
                     /\ \E c \in 1..n.clients, body \in IssuedBodies(n) :
                            PostOrdersRead(c, body)
    \/ \E c \in 1..n.clients, fk \in BOOLEAN : PostOrdersTransaction(c, fk)

SpecCrud == Init /\ [][CrudNext(CrudScope)]_vars

\* Orders and the prices of their products, one request at a time.
TotalsNext(n) ==
    \/ InFlight = {} /\ userSeq < n.users /\ \E valid \in BOOLEAN : PostUser(valid)
    \/ InFlight = {} /\ productSeq < n.products
                     /\ \E valid \in BOOLEAN, price \in Prices :
                            PostProduct(valid, n.stock, price)
    \/ InFlight = {} /\ \E id \in 1..n.products, valid \in BOOLEAN,
                           data \in [price : Prices] :
                            PatchProduct(id, valid, data)
    \/ InFlight = {} /\ \E id \in 1..n.products : GetProduct(id)
    \/ InFlight = {} /\ \E id \in 1..n.orders : GetOrder(id)
    \/ InFlight = {} /\ \E id \in 1..n.orders : DeleteOrder(id)
    \/ InFlight = {} /\ OrderIdLeft(n)
                     /\ \E c \in 1..n.clients, body \in IssuedBodies(n) :
                            PostOrdersRead(c, body)
    \/ \E c \in 1..n.clients, fk \in BOOLEAN : PostOrdersTransaction(c, fk)

SpecTotals == Init /\ [][TotalsNext(TotalsScope)]_vars

\* -------------------------------------------------------------- claims
Lines(orderItems) == 1..Len(orderItems)

\* client c's request passes the stock check in this step
Accepts(c) == pc[c] = "idle" /\ pc'[c] = "tx"

\* client c's transaction runs and is answered in this step
Commits(c) == pc[c] = "tx" /\ pc'[c] = "idle"

OrderAppears == DOMAIN orders' \ DOMAIN orders # {}

StockFalls ==
    \E p \in DOMAIN products \cap DOMAIN products' :
        products'[p].stock < products[p].stock

\* the step persists the order of c's request, each of its lines and a stock
\* decrement for each line
WholeOrder(c) ==
    /\ last'.op = "POST /orders" /\ last'.status = 200
    /\ DOMAIN orders' = DOMAIN orders \cup {orderSeq + 1}
    /\ orderSeq + 1 \notin DOMAIN orders
    /\ orders'[orderSeq + 1].userId = req[c].userId
    /\ orders'[orderSeq + 1].orderItems = req[c].orderItems
    /\ \A i \in Lines(req[c].orderItems) :
           LET p == req[c].orderItems[i].productId
           IN  /\ p \in DOMAIN products \cap DOMAIN products'
               /\ products'[p].stock < products[p].stock

NoTrace == users' = users /\ products' = products /\ orders' = orders

\* C1: a POST /orders transaction persists the order, all its lines and all its
\* stock decrements, or nothing; and no step shows a new order or a fallen stock
\* without the rest.
Atomicity ==
    [][/\ \A c \in Clients :
              Commits(c) => \/ WholeOrder(c)
                            \/ last'.status # 200 /\ NoTrace
       /\ (OrderAppears \/ StockFalls) => \E c \in Clients : Commits(c) /\ WholeOrder(c)
      ]_vars

\* a transaction that failed at a stock update, after the order creation ran:
\* the owner exists and nothing of the order is in the store
AtomicityWitness ==
    /\ last.op = "POST /orders" /\ last.message = "P2025"
    /\ users # {}
    /\ orders = Empty

DistinctProducts(orderItems) ==
    \A i, j \in Lines(orderItems) :
        orderItems[i].productId = orderItems[j].productId => i = j

\* C2: whatever the interleaving of the placements' reads and transactions, no
\* product's stock is below 0 (stated for orders whose lines name distinct
\* products, so that only the interleaving can break it).
StockNeverNegative ==
    (\A o \in DOMAIN orders : DistinctProducts(orders[o].orderItems))
        => \A p \in DOMAIN products : products[p].stock >= 0

\* the valid one-line requests of the placement scope
OneLineBodies ==
    {body \in PlacementScope.bodies :
        Len(body.orderItems) = 1 /\ ValidCreateOrder(body)}

\* C3: with no concurrent request, a one-line request for q of an existing
\* product with stock s by an existing owner is accepted iff s >= q, then
\* succeeds and leaves s - q; otherwise it is answered Insufficient Stock and
\* the stock stays s.
SufficiencyCheck ==
    [][\A c \in Clients, body \in OneLineBodies :
          LET p == body.orderItems[1].productId
              q == body.orderItems[1].quantity
          IN  (body.userId \in users /\ p \in DOMAIN products)
              => /\ (pc[c] = "idle" /\ PostOrdersRead(c, body)) =>
                        IF products[p].stock >= q
                        THEN Accepts(c) /\ req'[c] = body
                        ELSE /\ last' = Response("POST /orders", 500,
                                                 "Insufficient Stock", NoBody)
                             /\ pc' = pc
                             /\ products' = products /\ orders' = orders
                 /\ (Commits(c) /\ req[c] = body) =>
                        /\ products[p].stock >= q
                        /\ last'.op = "POST /orders" /\ last'.status = 200
                        /\ products'[p].stock = products[p].stock - q
                        /\ DOMAIN orders' = DOMAIN orders \cup {orderSeq + 1}
      ]_vars

\* a one-line order for the whole stock was placed and left stock 0
SufficiencyCheckWitness ==
    /\ last.op = "POST /orders" /\ last.status = 200
    /\ LET o == orders[last.body.id]
       IN  /\ Len(o.orderItems) = 1
           /\ o.orderItems[1].quantity >= 1
           /\ products[o.orderItems[1].productId].stock = 0

\* the step ends a POST /orders request with a response other than success
RejectedPlacement ==
    /\ last'.op = "POST /orders" /\ last'.status # 200
    /\ last' # last \/ \E c \in Clients : Commits(c)

InsufficientStockIsClientError ==
    last.message = "Insufficient Stock" => last.status \in 400..499

NotFoundOutcome == last'.status = 404 /\ UNCHANGED store

\* C6: get, patch (valid body) and delete of an id that is not in the store
\* answer 404 and change nothing, for users, products and orders.
NotFoundConsistency ==
    [][/\ \A id \in (1..CrudScope.users) \ users :
              /\ GetUser(id) => NotFoundOutcome
              /\ PatchUser(id, TRUE) => NotFoundOutcome
              /\ DeleteUser(id) => NotFoundOutcome
       /\ \A id \in (1..CrudScope.products) \ DOMAIN products :
              /\ GetProduct(id) => NotFoundOutcome
              /\ (\E data \in ProductPatches(0..CrudScope.stock, Prices) :
                      PatchProduct(id, TRUE, data))
                     => NotFoundOutcome
              /\ DeleteProduct(id) => NotFoundOutcome
       /\ \A id \in (1..CrudScope.orders) \ DOMAIN orders :
              /\ GetOrder(id) => NotFoundOutcome
              /\ (\E status \in Statuses : PatchOrder(id, TRUE, status))
                     => NotFoundOutcome
              /\ DeleteOrder(id) => NotFoundOutcome
      ]_vars

\* the second delete of an order: the id was handed out, the row is gone, and
\* the delete was answered 404
NotFoundConsistencyWitness ==
    /\ last.op = "DELETE /orders/:id" /\ last.status = 404
    /\ orderSeq >= 1 /\ orders = Empty

\* the sum of unitPrice x quantity over the first n lines
RECURSIVE SumTo(_, _)
SumTo(orderItems, n) ==
    IF n = 0 THEN 0
    ELSE SumTo(orderItems, n - 1) + orderItems[n].unitPrice * orderItems[n].quantity

EveryLineChecked ==
    [][\A c \in Clients :
          Accepts(c) =>
              \A i \in Lines(req'[c].orderItems) :
                  LET p == req'[c].orderItems[i].productId
                  IN  p \in DOMAIN products =>
                          products[p].stock >= req'[c].orderItems[i].quantity
      ]_vars

\* the quantity the lines ask of product p, all lines together
RECURSIVE Demand(_, _)
Demand(orderItems, p) ==
    IF orderItems = <<>> THEN 0
    ELSE (IF Head(orderItems).productId = p THEN Head(orderItems).quantity ELSE 0)
         + Demand(Tail(orderItems), p)

\* C9: with no concurrent request, a successful placement lowers each product's
\* stock by exactly the quantity its lines ask of it, and no other stock.
DecrementEqualsDemand ==
    [][\A c \in Clients :
          (Commits(c) /\ last'.status = 200) =>
              \A p \in DOMAIN products :
                  /\ p \in DOMAIN products'
                  /\ products'[p].stock
                         = products[p].stock - Demand(req[c].orderItems, p)
      ]_vars

\* C10: a request that names a product not in the store does not pass the stock
\* check, so no transaction is attempted for it.
UnknownProductRejected ==
    [][\A c \in Clients :
          Accepts(c) =>
              \A i \in Lines(req'[c].orderItems) :
                  req'[c].orderItems[i].productId \in DOMAIN products
      ]_vars

====
